---- MODULE Spec2Model ----
(***************************************************************************)
(* onnx-sharder: classification of ONNX initializers by transformer layer  *)
(* (src/parser/classify.py) and the writing of the classified tensors to   *)
(* numbered external-data shard files (src/writer/shard_writer.py), driven *)
(* by main.py.                                                             *)
(*                                                                         *)
(* Tensor and node names are sequences of one-character strings, because   *)
(* the classifier's regular expressions inspect them.  File names and      *)
(* shard ids are strings: the code only formats and compares them.         *)
(***************************************************************************)
EXTENDS Integers, Sequences, FiniteSets, TLC

(***************************************************************************)
(* Bounds of the model.                                                    *)
(***************************************************************************)
\* largest number of initializers in the input model
MaxTensors == 3
\* largest layer index written in a tensor name
MaxLayer == 2
\* largest raw_data length of a tensor, in bytes
MaxBytes == 1
\* largest --layers-per-chunk value tried (the smallest is -1)
MaxChunk == 2
\* largest number of graph nodes when the classifier is examined alone
MaxNodes == 3

(***************************************************************************)
(* Python built-ins used by the code.                                      *)
(***************************************************************************)
DigitStr == <<"0", "1", "2", "3", "4", "5", "6", "7", "8", "9">>

IsDigit(c) == \E d \in 1..10 : DigitStr[d] = c

DigitVal(c) == (CHOOSE d \in 1..10 : DigitStr[d] = c) - 1

\* str(n), as the f-strings and str(offset) / str(length) format an int
RECURSIVE Str(_)
Str(n) ==
    IF n < 0 THEN "-" \o Str(0 - n)
    ELSE IF n < 10 THEN DigitStr[n + 1]
    ELSE Str(n \div 10) \o DigitStr[(n % 10) + 1]

\* the same digits as a character sequence (used to build tensor names)
RECURSIVE StrChars(_)
StrChars(n) ==
    IF n < 10 THEN <<DigitStr[n + 1]>>
    ELSE StrChars(n \div 10) \o <<DigitStr[(n % 10) + 1]>>

\* int(digits) for a non-empty sequence of digit characters
RECURSIVE ParseInt(_)
ParseInt(ds) ==
    IF Len(ds) = 1 THEN DigitVal(ds[1])
    ELSE 10 * ParseInt(SubSeq(ds, 1, Len(ds) - 1)) + DigitVal(ds[Len(ds)])

\* max(a, b)
Max(a, b) == IF a >= b THEN a ELSE b

\* min(a, b)
Min(a, b) == IF a <= b THEN a ELSE b

\* v is one of the values of range(start, stop, step), step # 0
InRange(v, start, stop, step) ==
    IF step > 0
    THEN v >= start /\ v < stop /\ (v - start) % step = 0
    ELSE v <= start /\ v > stop /\ (start - v) % (0 - step) = 0

\* the literal lit occurs in s at position i
LitAt(s, i, lit) ==
    /\ i >= 1
    /\ i + Len(lit) - 1 <= Len(s)
    /\ SubSeq(s, i, i + Len(lit) - 1) = lit

\* length of the run of digits of s that starts at position i (\d+ is greedy)
RECURSIVE DigitRun(_, _)
DigitRun(s, i) ==
    IF i <= Len(s) /\ IsDigit(s[i]) THEN 1 + DigitRun(s, i + 1) ELSE 0

(***************************************************************************)
(* classify.py: the patterns.  A match is <<>> (None) or <<group(1)>>.     *)
(***************************************************************************)
LitModelLayers == <<"m", "o", "d", "e", "l", ".", "l", "a", "y", "e", "r", "s", ".">>
LitNodeLayers == <<"/", "m", "o", "d", "e", "l", "/", "l", "a", "y", "e", "r", "s", ".">>
LitEmbed ==
    <<"m", "o", "d", "e", "l", ".", "e", "m", "b", "e", "d", "_", "t", "o", "k", "e", "n", "s", ".">>
LitNorm == <<"m", "o", "d", "e", "l", ".", "n", "o", "r", "m", ".">>
LitLmHead == <<"/", "l", "m", "_", "h", "e", "a", "d", "/">>

\* lit, then \d+, then the character close, all starting at position i of s
DigitsPatternAt(s, i, lit, close) ==
    /\ LitAt(s, i, lit)
    /\ LET d == DigitRun(s, i + Len(lit))
       IN  /\ d >= 1
           /\ i + Len(lit) + d <= Len(s)
           /\ s[i + Len(lit) + d] = close

DigitsGroupAt(s, i, lit) ==
    SubSeq(s, i + Len(lit), i + Len(lit) + DigitRun(s, i + Len(lit)) - 1)

\* LAYER_RE.match(name): ^model\.layers\.(\d+)\.
LAYER_RE_match(name) ==
    IF DigitsPatternAt(name, 1, LitModelLayers, ".")
    THEN <<DigitsGroupAt(name, 1, LitModelLayers)>>
    ELSE <<>>

\* NODE_LAYER_RE.search(name): /model/layers\.(\d+)/ at the leftmost position
NODE_LAYER_RE_search(name) ==
    LET hits == {i \in 1..Len(name) : DigitsPatternAt(name, i, LitNodeLayers, "/")}
    IN  IF hits = {} THEN <<>>
        ELSE LET first == CHOOSE i \in hits : \A j \in hits : i <= j
             IN  <<DigitsGroupAt(name, first, LitNodeLayers)>>

\* EMBED_RE.match(name): ^model\.embed_tokens\.
EMBED_RE_match(name) == LitAt(name, 1, LitEmbed)

\* NORM_RE.match(name): ^model\.norm\.
NORM_RE_match(name) == LitAt(name, 1, LitNorm)

\* "/lm_head/" in name
HasLmHead(name) == \E i \in 1..Len(name) : LitAt(name, i, LitLmHead)

(***************************************************************************)
(* classify.py: the node-derived maps.                                     *)
(***************************************************************************)
\* an inner loop without the "not in" test: the last writer wins
RECURSIVE MutMapInputsOverwrite(_, _, _, _)
MutMapInputsOverwrite(init_to_layer, inputs, layer_idx, k) ==
    IF k > Len(inputs) THEN init_to_layer
    ELSE MutMapInputsOverwrite(
             [n \in DOMAIN init_to_layer \cup {inputs[k]} |->
                 IF n = inputs[k] THEN layer_idx ELSE init_to_layer[n]],
             inputs, layer_idx, k + 1)

\* the inner loop of _build_init_to_layer_map over node.input[k..]
RECURSIVE MapInputs(_, _, _, _)
MapInputs(init_to_layer, inputs, layer_idx, k) ==
    IF k > Len(inputs) THEN init_to_layer
    ELSE IF inputs[k] \in DOMAIN init_to_layer
         THEN MapInputs(init_to_layer, inputs, layer_idx, k + 1)
         ELSE MapInputs(init_to_layer @@ (inputs[k] :> layer_idx), inputs, layer_idx, k + 1)

\* the outer loop of _build_init_to_layer_map over graph.node[k..]
RECURSIVE LayerMapFrom(_, _, _)
LayerMapFrom(init_to_layer, nodes, k) ==
    IF k > Len(nodes) THEN init_to_layer
    ELSE LET m == NODE_LAYER_RE_search(nodes[k].name)
         IN  IF m = <<>>
             THEN LayerMapFrom(init_to_layer, nodes, k + 1)
             ELSE LayerMapFrom(MapInputs(init_to_layer, nodes[k].input, ParseInt(m[1]), 1),
                               nodes, k + 1)

build_init_to_layer_map(nodes) == LayerMapFrom(<<>>, nodes, 1)

build_init_to_lm_head(nodes) ==
    UNION {{nodes[k].input[j] : j \in 1..Len(nodes[k].input)} :
              k \in {i \in 1..Len(nodes) : HasLmHead(nodes[i].name)}}

(***************************************************************************)
(* classify.py: classify_tensor and classify_initializers.                 *)
(***************************************************************************)
NO_LAYER == -1

\* a ClassifyResult as the dataclass constructs it
EmptyClassifyResult ==
    [embed |-> <<>>, lm_head |-> <<>>, norm |-> <<>>, layers |-> <<>>,
     max_layer |-> NO_LAYER]

\* the rules with the node-derived map consulted before the name
MutClassifyMapFirst(name, init_to_layer, lm_head_inits) ==
    LET m == LAYER_RE_match(name)
    IN  IF name \in DOMAIN init_to_layer THEN <<"layer", init_to_layer[name]>>
        ELSE IF m # <<>> THEN <<"layer", ParseInt(m[1])>>
        ELSE IF EMBED_RE_match(name) THEN <<"embed", NO_LAYER>>
        ELSE IF NORM_RE_match(name) THEN <<"norm", NO_LAYER>>
        ELSE IF name \in lm_head_inits THEN <<"lm_head", NO_LAYER>>
        ELSE <<"embed", NO_LAYER>>

\* classify_tensor: <<kind, layer index or NO_LAYER for None>>
classify_tensor(name, init_to_layer, lm_head_inits) ==
    LET m == LAYER_RE_match(name)
    IN  IF m # <<>> THEN <<"layer", ParseInt(m[1])>>
        ELSE IF name \in DOMAIN init_to_layer THEN <<"layer", init_to_layer[name]>>
        ELSE IF EMBED_RE_match(name) THEN <<"embed", NO_LAYER>>
        ELSE IF NORM_RE_match(name) THEN <<"norm", NO_LAYER>>
        ELSE IF name \in lm_head_inits THEN <<"lm_head", NO_LAYER>>
        ELSE <<"embed", NO_LAYER>>

\* result.layers.setdefault(layer_idx, []).append(tensor)
SetDefaultAppend(layers, layer_idx, t) ==
    IF layer_idx \in DOMAIN layers
    THEN [layers EXCEPT ![layer_idx] = Append(@, t)]
    ELSE layers @@ (layer_idx :> <<t>>)

\* the update of max_layer
MutMaxLayerLast(max_layer, layer_idx) == layer_idx

UpdateMaxLayer(max_layer, layer_idx) == Max(max_layer, layer_idx)

\* a loop body that forgets the norm branch
MutAddNoNorm(result, t, kind, layer_idx) ==
    IF kind = "layer"
    THEN [result EXCEPT !.layers = SetDefaultAppend(@, layer_idx, t),
                        !.max_layer = Max(@, layer_idx)]
    ELSE IF kind = "embed" THEN [result EXCEPT !.embed = Append(@, t)]
    ELSE IF kind = "lm_head" THEN [result EXCEPT !.lm_head = Append(@, t)]
    ELSE result

\* the body of the loop of classify_initializers for tensor t (an index into
\* the initializer list: the result lists hold references to the tensors)
AddToResult(result, t, kind, layer_idx) ==
    IF kind = "layer"
    THEN [result EXCEPT !.layers = SetDefaultAppend(@, layer_idx, t),
                        !.max_layer = UpdateMaxLayer(@, layer_idx)]
    ELSE IF kind = "embed" THEN [result EXCEPT !.embed = Append(@, t)]
    ELSE IF kind = "lm_head" THEN [result EXCEPT !.lm_head = Append(@, t)]
    ELSE IF kind = "norm" THEN [result EXCEPT !.norm = Append(@, t)]
    ELSE result

RECURSIVE ClassifyFrom(_, _, _, _, _)
ClassifyFrom(result, inits, init_to_layer, lm_head_inits, t) ==
    IF t > Len(inits) THEN result
    ELSE LET c == classify_tensor(inits[t].name, init_to_layer, lm_head_inits)
         IN  ClassifyFrom(AddToResult(result, t, c[1], c[2]),
                          inits, init_to_layer, lm_head_inits, t + 1)

classify_initializers(inits, nodes) ==
    ClassifyFrom(EmptyClassifyResult, inits,
                 build_init_to_layer_map(nodes), build_init_to_lm_head(nodes), 1)

(***************************************************************************)
(* The inputs of a run: the command line and the model file.               *)
(***************************************************************************)
\* "model.layers.<i>.w"
LayerName(i) == LitModelLayers \o StrChars(i) \o <<".", "w">>

EmbedName == LitEmbed \o <<"w">>

NormName == LitNorm \o <<"w">>

\* quantized names, which carry no layer marker
OpaqueA == <<"o", "n", "n", "x", ":", ":", "M", "_", "1">>

OpaqueB == <<"o", "n", "n", "x", ":", ":", "M", "_", "2">>

\* the tensors of the reference checkpoint, in file order
RefNames == <<EmbedName, LayerName(0), OpaqueA, LayerName(MaxLayer), NormName, OpaqueB>>

\* a graph in the quantized naming: the weight OpaqueA feeds a layer-1 node
\* first, a layer-0 node second and the output head; OpaqueB feeds the
\* output head only
QuantGraph ==
    << [name |-> LitNodeLayers \o <<"1", "/", "a">>, input |-> <<OpaqueA, LayerName(0)>>],
       [name |-> LitNodeLayers \o <<"0", "/", "b">>, input |-> <<OpaqueA>>],
       [name |-> LitLmHead \o <<"c">>, input |-> <<OpaqueB, EmbedName, OpaqueA>>] >>

GraphChoices == {<<>>, QuantGraph}

\* payload q of a tensor: 0 is an empty tensor, 1..MaxBytes are raw_data of
\* that many bytes, MaxBytes + 1 is one float32 in float_data and no raw_data
PayloadKinds == MaxBytes + 2

RawPayload(q) == IF q \in 1..MaxBytes THEN [j \in 1..q |-> (16 * q + j) % 256] ELSE <<>>

FloatPayload(q) == IF q = MaxBytes + 1 THEN <<1065353216>> ELSE <<>>

\* a TensorProto as onnx.load leaves it: data inline
InlineTensor(name, q) ==
    [name |-> name, raw_data |-> RawPayload(q), float_data |-> FloatPayload(q),
     data_location |-> "DEFAULT", external_data |-> <<>>]

\* the increasing index sequences of length n over 1..m
RECURSIVE Increasing(_, _)
Increasing(n, m) ==
    IF n = 0 THEN {<<>>}
    ELSE {Append(s, k) : <<s, k>> \in
             {p \in Increasing(n - 1, m) \X (1..m) :
                 Len(p[1]) = 0 \/ p[1][Len(p[1])] < p[2]}}

Reverse(s) == [i \in 1..Len(s) |-> s[Len(s) + 1 - i]]

\* the initializer lists tried: up to MaxTensors tensors of the reference
\* checkpoint, in file order or in reverse order
NameLists ==
    LET picks == UNION {Increasing(n, Len(RefNames)) : n \in 0..Min(MaxTensors, Len(RefNames))}
    IN  {[i \in 1..Len(s) |-> RefNames[s[i]]] : s \in picks \cup {Reverse(s) : s \in picks}}

\* the payloads differ along the list, starting from payload p
Initializers(names, p) ==
    [i \in 1..Len(names) |-> InlineTensor(names[i], (p + i) % PayloadKinds)]

ChunkValues == (0 - 1)..MaxChunk

(***************************************************************************)
(* The state of one run of main().                                         *)
(***************************************************************************)
VARIABLES
    argv,          \* the command line: [layers_per_chunk, split_base]
    model_in,      \* the input model file: [initializer, node]
    pc,            \* the position of main()
    args,          \* parse_args(): [layers_per_chunk, split_base], <<>> before
    tensors,       \* model.graph.initializer in memory (mutated by the writer)
    result,        \* the ClassifyResult (its lists hold indices into tensors)
    total_layers,  \* main()'s total_layers
    dir_created,   \* the output directory exists
    files,         \* the shard files on disk: file name -> bytes
    open_files,    \* the file names with an open write handle
    shards,        \* write_shards's shards list
    data_idx,      \* write_shards's data_idx
    group_start,   \* the loop variable of the layer loop
    frame,         \* the running _write_shard call, <<>> when none
    model_onnx,    \* model.onnx on disk: <<>> or <<the saved initializers>>
    manifest_json, \* manifest.json on disk: <<>> or <<the manifest dict>>
    config_json,   \* config.json on disk: <<>> or <<the config dict>>
    error,         \* the exception that ended the run: [kind, at], <<>> when none
    trace          \* history: the file operations of the run, in order

vars ==
    <<argv, model_in, pc, args, tensors, result, total_layers, dir_created, files,
      open_files, shards, data_idx, group_start, frame, model_onnx, manifest_json,
      config_json, error, trace>>

Init ==
    /\ argv \in [layers_per_chunk : ChunkValues, split_base : BOOLEAN]
    /\ model_in \in
           {[initializer |-> Initializers(names, p), node |-> g] :
                <<names, p, g>> \in NameLists \X (0..PayloadKinds - 1) \X GraphChoices}
    /\ pc = "parse_args"
    /\ args = <<>>
    /\ tensors = model_in.initializer
    /\ result = EmptyClassifyResult
    /\ total_layers = 0
    /\ dir_created = FALSE
    /\ files = <<>>
    /\ open_files = {}
    /\ shards = <<>>
    /\ data_idx = 0
    /\ group_start = 0
    /\ frame = <<>>
    /\ model_onnx = <<>>
    /\ manifest_json = <<>>
    /\ config_json = <<>>
    /\ error = <<>>
    /\ trace = <<>>

(***************************************************************************)
(* main.py, steps 1 and 2.                                                 *)
(***************************************************************************)
\* parse_args: --layers-per-chunk is type=int and --split-base a flag; no
\* value is rejected
ParseArgs ==
    /\ pc = "parse_args"
    /\ args' = [layers_per_chunk |-> argv.layers_per_chunk, split_base |-> argv.split_base]
    /\ pc' = "classify"
    /\ UNCHANGED <<argv, model_in, tensors, result, total_layers, dir_created, files,
                   open_files, shards, data_idx, group_start, frame, model_onnx,
                   manifest_json, config_json, error, trace>>

\* main(): total_layers = result.max_layer + 1 if result.max_layer >= 0 else 0
TotalLayers(max_layer) == IF max_layer >= 0 THEN max_layer + 1 ELSE 0

Classify ==
    /\ pc = "classify"
    /\ result' = classify_initializers(tensors, model_in.node)
    /\ total_layers' = TotalLayers(result'.max_layer)
    /\ pc' = "mkdir"
    /\ UNCHANGED <<argv, model_in, args, tensors, dir_created, files, open_files, shards,
                   data_idx, group_start, frame, model_onnx, manifest_json, config_json,
                   error, trace>>

(***************************************************************************)
(* shard_writer.py: _write_shard, _write_data_file, _blake3_file.          *)
(***************************************************************************)
\* numpy_helper.to_array(tensor).tobytes() of a float32 tensor without
\* raw_data: four little-endian bytes per element
RECURSIVE ToArrayBytes(_)
ToArrayBytes(float_data) ==
    IF float_data = <<>> THEN <<>>
    ELSE LET v == float_data[1]
         IN  <<v % 256, (v \div 256) % 256, (v \div 65536) % 256, (v \div 16777216) % 256>>
                 \o ToArrayBytes(Tail(float_data))

tensor_raw_bytes(tensor) ==
    IF tensor.raw_data # <<>> THEN tensor.raw_data ELSE ToArrayBytes(tensor.float_data)

\* the digest of a file's content (an ideal hash: one digest per content)
MutDigestOfEmpty(content) == [blake3 |-> <<>>]

blake3_hexdigest(content) == [blake3 |-> content]

\* offset += length
MutNextOffsetByOne(offset, length) == offset + 1

NextOffset(offset, length) == offset + length

\* the tensor after _write_data_file has written it at offset
Externalized(tensor, data_filename, offset, length) ==
    [tensor EXCEPT
        !.raw_data = <<>>,
        !.float_data = <<>>,
        !.data_location = "EXTERNAL",
        !.external_data =
            << [key |-> "location", value |-> data_filename],
               [key |-> "offset", value |-> Str(offset)],
               [key |-> "length", value |-> Str(length)] >>]

\* _write_shard: if not tensors: return None
MutNeverSkips(group) == FALSE

WriteShardSkips(group) == group = <<>>

\* the frame of a _write_shard call; next says where write_shards goes on
NewFrame(group, shard_id, kind, data_path, layer_range, next) ==
    [tensors |-> group, k |-> 1, offset |-> 0, id |-> shard_id, kind |-> kind,
     path |-> data_path, layer_range |-> layer_range, total_bytes |-> 0, next |-> next]

\* shards.append(shard)
MutPrependShard(list, shard) == <<shard>> \o list

AppendShard(list, shard) == Append(list, shard)

Event(op, file, t) == [op |-> op, file |-> file, tensor |-> t]

\* what an uncaught exception does to main(): nothing after it runs
MutGoOnToManifest == "manifest"

PcAfterException == "aborted"

\* with open(data_path, "wb") as f
OpenShardFile ==
    /\ pc = "open"
    /\ files' = [n \in DOMAIN files \cup {frame.path} |-> IF n = frame.path THEN <<>> ELSE files[n]]
    /\ open_files' = open_files \cup {frame.path}
    /\ trace' = Append(trace, Event("open", frame.path, 0))
    /\ pc' = "write"
    /\ UNCHANGED <<argv, model_in, args, tensors, result, total_layers, dir_created, shards,
                   data_idx, group_start, frame, model_onnx, manifest_json, config_json,
                   error>>

\* one iteration of the loop of _write_data_file
WriteTensor ==
    /\ pc = "write"
    /\ frame.k <= Len(frame.tensors)
    /\ LET t == frame.tensors[frame.k]
           raw == tensor_raw_bytes(tensors[t])
           length == Len(raw)
       IN  /\ files' = [files EXCEPT ![frame.path] = @ \o raw]
           /\ tensors' = [tensors EXCEPT ![t] = Externalized(@, frame.path, frame.offset, length)]
           /\ frame' = [frame EXCEPT !.k = @ + 1, !.offset = NextOffset(@, length)]
           /\ trace' = Append(trace, Event("write", frame.path, t))
    /\ UNCHANGED <<argv, model_in, pc, args, result, total_layers, dir_created, open_files,
                   shards, data_idx, group_start, model_onnx, manifest_json, config_json,
                   error>>

\* the end of the with block and return offset
CloseShardFile ==
    /\ pc = "write"
    /\ frame.k > Len(frame.tensors)
    /\ open_files' = open_files \ {frame.path}
    /\ frame' = [frame EXCEPT !.total_bytes = frame.offset]
    /\ trace' = Append(trace, Event("close", frame.path, 0))
    /\ pc' = "hash"
    /\ UNCHANGED <<argv, model_in, args, tensors, result, total_layers, dir_created, files,
                   shards, data_idx, group_start, model_onnx, manifest_json, config_json,
                   error>>

\* data_idx += 1 after the base shard, inside "if all_base"
BaseDataIdx(idx) == idx + 1

\* data_idx += 1 at the end of the body of the merged layer loop
MutLayerDataIdxKept(idx) == idx

LayerDataIdx(idx) == idx + 1

\* _blake3_file, the Shard returned, and what write_shards does with it
HashShardFile ==
    /\ pc = "hash"
    /\ LET shard == [id |-> frame.id, kind |-> frame.kind, filename |-> frame.path,
                     bytes |-> frame.total_bytes,
                     hash |-> blake3_hexdigest(files[frame.path]),
                     layer_range |-> frame.layer_range]
       IN  shards' = AppendShard(shards, shard)
    /\ trace' = Append(trace, Event("hash", frame.path, 0))
    /\ frame' = <<>>
    /\ IF frame.next = "base"
       THEN /\ data_idx' = IF args.split_base THEN data_idx ELSE BaseDataIdx(data_idx)
            /\ group_start' = group_start
            /\ pc' = "layers"
       ELSE IF frame.next = "group"
       THEN /\ data_idx' = IF args.split_base THEN data_idx ELSE LayerDataIdx(data_idx)
            /\ group_start' = group_start + args.layers_per_chunk
            /\ pc' = "group"
       ELSE /\ data_idx' = data_idx
            /\ group_start' = group_start
            /\ pc' = "save"
    /\ UNCHANGED <<argv, model_in, args, tensors, result, total_layers, dir_created, files,
                   open_files, model_onnx, manifest_json, config_json, error>>

(***************************************************************************)
(* shard_writer.py: write_shards.                                          *)
(***************************************************************************)
\* output_dir / f"model.onnx_data_{suffix}", as data_path.name
DataPath(suffix) == "model.onnx_data_" \o suffix

\* the data file of a layer group in merged mode, which data_idx numbers
MergedLayerPath(start, idx) == DataPath(Str(idx))

\* the data file of a layer group in split mode, which group_start numbers
MutSplitLayerPathByIdx(start, idx) == MergedLayerPath(start, idx)

SplitLayerPath(start, idx) == DataPath(Str(start))

\* the shard id of a layer group in split mode
SplitShardId(start, end) ==
    IF start = end THEN "layer_" \o Str(start)
    ELSE "layers_" \o Str(start) \o "-" \o Str(end)

\* the shard id of a layer group in merged mode
MergedShardId(start, end) == "layers_" \o Str(start) \o "-" \o Str(end)

\* group_end = min(group_start + layers_per_chunk, total_layers) - 1
MutGroupEndNoMin(start, chunk, total) == start + chunk - 1

GroupEnd(start, chunk, total) == Min(start + chunk, total) - 1

\* the concatenation of layers.get(layer_idx, []) for layer_idx in range(from, stop)
RECURSIVE LayersConcat(_, _, _)
LayersConcat(layers, from, stop) ==
    IF from >= stop THEN <<>>
    ELSE (IF from \in DOMAIN layers THEN layers[from] ELSE <<>>)
             \o LayersConcat(layers, from + 1, stop)

MutGroupTensorsShort(layers, start, end) == LayersConcat(layers, start, end)

\* group_tensors of the range [start, end]
GroupTensors(layers, start, end) == LayersConcat(layers, start, end + 1)

\* where write_shards goes on after the layer part
AfterLayers == IF args.split_base THEN "lm_head" ELSE "save"

\* output_dir.mkdir(parents=True, exist_ok=True); shards = []; data_idx = 0
Mkdir ==
    /\ pc = "mkdir"
    /\ dir_created' = TRUE
    /\ shards' = <<>>
    /\ data_idx' = 0
    /\ pc' = "base"
    /\ UNCHANGED <<argv, model_in, args, tensors, result, total_layers, files, open_files,
                   group_start, frame, model_onnx, manifest_json, config_json, error, trace>>

\* the embed shard (split mode) or the merged base shard
BaseGroup ==
    /\ pc = "base"
    /\ IF args.split_base
       THEN LET embed_tensors == result.embed \o result.norm
            IN  IF WriteShardSkips(embed_tensors)
                THEN /\ pc' = "layers"
                     /\ UNCHANGED <<frame, data_idx>>
                ELSE /\ frame' = NewFrame(embed_tensors, "embed", "embed",
                                          DataPath("embed"), <<>>, "base")
                     /\ pc' = "open"
                     /\ UNCHANGED data_idx
       ELSE LET all_base == result.embed \o result.norm \o result.lm_head
            IN  IF all_base = <<>>
                THEN /\ pc' = "layers"
                     /\ UNCHANGED <<frame, data_idx>>
                ELSE IF WriteShardSkips(all_base)
                THEN /\ pc' = "layers"
                     /\ data_idx' = BaseDataIdx(data_idx)
                     /\ UNCHANGED frame
                ELSE /\ frame' = NewFrame(all_base, "embed", "embed",
                                          DataPath(Str(data_idx)), <<>>, "base")
                     /\ pc' = "open"
                     /\ UNCHANGED data_idx
    /\ UNCHANGED <<argv, model_in, args, tensors, result, total_layers, dir_created, files,
                   open_files, shards, group_start, model_onnx, manifest_json, config_json,
                   error, trace>>

\* if classify_result.max_layer < 0: warning; else: the for statement is
\* entered, and range() raises ValueError for a zero step
EnterLayers ==
    /\ pc = "layers"
    /\ IF result.max_layer < 0
       THEN /\ pc' = AfterLayers
            /\ UNCHANGED <<group_start, error>>
       ELSE IF args.layers_per_chunk = 0
       THEN /\ pc' = PcAfterException
            /\ error' = [kind |-> "ValueError", at |-> "layers"]
            /\ UNCHANGED group_start
       ELSE /\ pc' = "group"
            /\ group_start' = 0
            /\ UNCHANGED error
    /\ UNCHANGED <<argv, model_in, args, tensors, result, total_layers, dir_created, files,
                   open_files, shards, data_idx, frame, model_onnx, manifest_json,
                   config_json, trace>>

\* one iteration of: for group_start in range(0, total_layers, layers_per_chunk)
LayerGroup ==
    /\ pc = "group"
    /\ LET total == result.max_layer + 1
           chunk == args.layers_per_chunk
           group_end == GroupEnd(group_start, chunk, total)
           group_tensors == GroupTensors(result.layers, group_start, group_end)
       IN  IF ~InRange(group_start, 0, total, chunk)
           THEN /\ pc' = AfterLayers
                /\ UNCHANGED <<group_start, data_idx, frame>>
           ELSE IF group_tensors = <<>>
           THEN /\ group_start' = group_start + chunk
                /\ UNCHANGED <<pc, data_idx, frame>>
           ELSE IF WriteShardSkips(group_tensors)
           THEN /\ group_start' = group_start + chunk
                /\ data_idx' = IF args.split_base THEN data_idx ELSE LayerDataIdx(data_idx)
                /\ UNCHANGED <<pc, frame>>
           ELSE /\ frame' =
                       IF args.split_base
                       THEN NewFrame(group_tensors, SplitShardId(group_start, group_end),
                                     "layer", SplitLayerPath(group_start, data_idx),
                                     <<group_start, group_end>>, "group")
                       ELSE NewFrame(group_tensors, MergedShardId(group_start, group_end),
                                     "layer", MergedLayerPath(group_start, data_idx),
                                     <<group_start, group_end>>, "group")
                /\ pc' = "open"
                /\ UNCHANGED <<group_start, data_idx>>
    /\ UNCHANGED <<argv, model_in, args, tensors, result, total_layers, dir_created, files,
                   open_files, shards, model_onnx, manifest_json, config_json, error, trace>>

\* the lm_head shard (split mode only)
LmHeadGroup ==
    /\ pc = "lm_head"
    /\ IF WriteShardSkips(result.lm_head)
       THEN /\ pc' = "save"
            /\ UNCHANGED frame
       ELSE /\ frame' = NewFrame(result.lm_head, "lm_head", "lm_head",
                                 DataPath("lm_head"), <<>>, "lm_head")
            /\ pc' = "open"
    /\ UNCHANGED <<argv, model_in, args, tensors, result, total_layers, dir_created, files,
                   open_files, shards, data_idx, group_start, model_onnx, manifest_json,
                   config_json, error, trace>>

\* onnx.save(model, model_path); return shards
SaveModel ==
    /\ pc = "save"
    /\ model_onnx' = <<tensors>>
    /\ pc' = "manifest"
    /\ UNCHANGED <<argv, model_in, args, tensors, result, total_layers, dir_created, files,
                   open_files, shards, data_idx, group_start, frame, manifest_json,
                   config_json, error, trace>>

(***************************************************************************)
(* manifest.py, config_gen.py and the rest of main().                      *)
(***************************************************************************)
\* Shard.to_dict
ShardToDict(shard) ==
    LET d == [id |-> shard.id, kind |-> shard.kind, filename |-> shard.filename,
              bytes |-> shard.bytes, hash |-> <<"blake3:", shard.hash>>]
    IN  IF shard.layer_range # <<>>
        THEN d @@ [layer_range |-> shard.layer_range]
        ELSE d

\* ModelManifest.to_dict (the labels model_id, variant and dtype are copied
\* from the command line and left out)
ManifestToDict(total, list) ==
    [version |-> "0.2", framework |-> "onnxruntime-web", total_layers |-> total,
     shards |-> [i \in 1..Len(list) |-> ShardToDict(list[i])]]

\* ModelManifest(...).write(args.output)
WriteManifest ==
    /\ pc = "manifest"
    /\ manifest_json' = <<ManifestToDict(total_layers, shards)>>
    /\ pc' = "config"
    /\ UNCHANGED <<argv, model_in, args, tensors, result, total_layers, dir_created, files,
                   open_files, shards, data_idx, group_start, frame, model_onnx,
                   config_json, error, trace>>

\* generate_config(args.output, len(shards), model_type)
GenerateConfig ==
    /\ pc = "config"
    /\ config_json' = <<[model_type |-> "llama", use_external_data_format |-> Len(shards)]>>
    /\ pc' = "done"
    /\ UNCHANGED <<argv, model_in, args, tensors, result, total_layers, dir_created, files,
                   open_files, shards, data_idx, group_start, frame, model_onnx,
                   manifest_json, error, trace>>

\* the steps that touch the file system, each of which may raise OSError
IOPoints == {"mkdir", "open", "write", "hash", "save", "manifest", "config"}

\* an I/O step raises: a with block closes its file, the exception leaves main()
IOFail ==
    /\ pc \in IOPoints
    /\ error' = [kind |-> "OSError", at |-> pc]
    /\ open_files' = {}
    /\ trace' = IF open_files # {} THEN Append(trace, Event("close", frame.path, 0)) ELSE trace
    /\ pc' = PcAfterException
    /\ UNCHANGED <<argv, model_in, args, tensors, result, total_layers, dir_created, files,
                   shards, data_idx, group_start, frame, model_onnx, manifest_json,
                   config_json>>

Next ==
    \/ ParseArgs
    \/ Classify
    \/ Mkdir
    \/ BaseGroup
    \/ EnterLayers
    \/ LayerGroup
    \/ LmHeadGroup
    \/ OpenShardFile
    \/ WriteTensor
    \/ CloseShardFile
    \/ HashShardFile
    \/ SaveModel
    \/ WriteManifest
    \/ GenerateConfig
    \/ IOFail

Spec == Init /\ [][Next]_vars

(***************************************************************************)
(* Vocabulary of the properties.                                           *)
(***************************************************************************)
\* classify_initializers has run
Classified == pc \notin {"parse_args", "classify"}

\* write_shards has returned its shard list to main()
Returned == pc \in {"manifest", "config", "done"}

TensorIds == 1..Len(tensors)

\* the number of positions of list that hold t
Occurrences(list, t) == Cardinality({i \in DOMAIN list : list[i] = t})

RECURSIVE OccurrencesInLayers(_, _, _)
OccurrencesInLayers(layers, keys, t) ==
    IF keys = {} THEN 0
    ELSE LET k == CHOOSE x \in keys : TRUE
         IN  Occurrences(layers[k], t) + OccurrencesInLayers(layers, keys \ {k}, t)

\* how often t appears in the whole ClassifyResult
TimesClassified(t) ==
    Occurrences(result.embed, t) + Occurrences(result.lm_head, t)
        + Occurrences(result.norm, t)
        + OccurrencesInLayers(result.layers, DOMAIN result.layers, t)

\* every tensor the ClassifyResult holds
ClassifiedIds ==
    {result.embed[i] : i \in DOMAIN result.embed}
        \cup {result.lm_head[i] : i \in DOMAIN result.lm_head}
        \cup {result.norm[i] : i \in DOMAIN result.norm}
        \cup UNION {{result.layers[k][i] : i \in DOMAIN result.layers[k]} :
                        k \in DOMAIN result.layers}

\* the class of input tensor t by the classification rules
ClassOf(t) ==
    classify_tensor(model_in.initializer[t].name,
                    build_init_to_layer_map(model_in.node),
                    build_init_to_lm_head(model_in.node))

\* the raw byte length of input tensor t, before the writer clears it
RawLength(t) == Len(tensor_raw_bytes(model_in.initializer[t]))

\* the largest size of a shard file of the model
MaxFileBytes == MaxTensors * Max(MaxBytes, 4)

ExternalValue(t, key) ==
    LET ext == tensors[t].external_data
    IN  ext[CHOOSE i \in DOMAIN ext : ext[i].key = key].value

\* the recorded external reference of a tensor that has one
Location(t) == ExternalValue(t, "location")

Offset(t) == CHOOSE n \in 0..MaxFileBytes : Str(n) = ExternalValue(t, "offset")

Length(t) == CHOOSE n \in 0..MaxFileBytes : Str(n) = ExternalValue(t, "length")

\* the tensors written to file, in the order of the writes
WrittenTo(file) ==
    LET ws == SelectSeq(trace, LAMBDA e : e.op = "write" /\ e.file = file)
    IN  [i \in 1..Len(ws) |-> ws[i].tensor]

\* how often tensor t was written to any file
TimesWritten(t) == Cardinality({i \in DOMAIN trace : trace[i].op = "write" /\ trace[i].tensor = t})

\* the files opened for writing, in the order of the opens
OpenedFiles ==
    LET os == SelectSeq(trace, LAMBDA e : e.op = "open")
    IN  [i \in 1..Len(os) |-> os[i].file]

RECURSIVE SumLengths(_)
SumLengths(ts) == IF ts = <<>> THEN 0 ELSE RawLength(ts[1]) + SumLengths(Tail(ts))

ShardIds == 1..Len(shards)

(***************************************************************************)
(* C1: classify_initializers puts every input tensor in exactly one of     *)
(* embed, lm_head, norm or one layers[k] list, exactly once, and the       *)
(* result holds no tensor that is not an input tensor.                     *)
(***************************************************************************)
C1_Partition ==
    Classified =>
        /\ \A t \in TensorIds : TimesClassified(t) = 1
        /\ ClassifiedIds \subseteq TensorIds

C1_Witness ==
    /\ pc = "mkdir"
    /\ result.embed # <<>>
    /\ result.norm # <<>>
    /\ DOMAIN result.layers # {}

(***************************************************************************)
(* C2: for every produced shard, bytes is the sum of the raw lengths of    *)
(* the tensors written to it and the size of its file, and the recorded    *)
(* (offset, length) pairs, in group order, start at 0, are contiguous and  *)
(* end at bytes.  The claim as stated adds that the offsets are strictly   *)
(* increasing, also in a group with a tensor of zero byte length: a        *)
(* zero-length tensor shares its offset with the tensor after it, so the   *)
(* offsets are non-decreasing, and increase after every tensor of          *)
(* non-zero length.                                                        *)
(***************************************************************************)
C2_Accounting(shard) ==
    LET ts == WrittenTo(shard.filename)
    IN  /\ shard.bytes = SumLengths(ts)
        /\ shard.bytes = Len(files[shard.filename])
        /\ ts # <<>> => Offset(ts[1]) = 0
        /\ \A i \in DOMAIN ts :
               /\ Length(ts[i]) = RawLength(ts[i])
               /\ Location(ts[i]) = shard.filename
               /\ i < Len(ts) => Offset(ts[i + 1]) = Offset(ts[i]) + Length(ts[i])
               /\ i = Len(ts) => Offset(ts[i]) + Length(ts[i]) = shard.bytes

\* C2 as amended: non-decreasing offsets, increasing after a non-empty tensor
C2_ByteAccounting ==
    \A s \in ShardIds :
        /\ C2_Accounting(shards[s])
        /\ LET ts == WrittenTo(shards[s].filename)
           IN  \A i, j \in DOMAIN ts :
                   i < j => /\ Offset(ts[i]) <= Offset(ts[j])
                            /\ Length(ts[i]) > 0 => Offset(ts[i]) < Offset(ts[j])

\* C2 as stated: the same accounting with strictly increasing offsets
C2_StrictOffsets ==
    \A s \in ShardIds :
        /\ C2_Accounting(shards[s])
        /\ LET ts == WrittenTo(shards[s].filename)
           IN  \A i, j \in DOMAIN ts : i < j => Offset(ts[i]) < Offset(ts[j])

C2_Witness ==
    \E s \in ShardIds :
        LET ts == WrittenTo(shards[s].filename)
        IN  /\ Len(ts) >= 2
            /\ RawLength(ts[1]) = 0
            /\ RawLength(ts[2]) > 0

(***************************************************************************)
(* C3: after write_shards has returned, with layers_per_chunk >= 1, every  *)
(* input tensor was written exactly once, carries no inline data, and its  *)
(* external location names the file of a returned shard, which is the      *)
(* shard of its class.                                                     *)
(***************************************************************************)
C3_ShardOfClass(t, shard) ==
    LET c == ClassOf(t)
    IN  IF c[1] = "layer"
        THEN /\ shard.kind = "layer"
             /\ shard.layer_range # <<>>
             /\ shard.layer_range[1] <= c[2]
             /\ c[2] <= shard.layer_range[2]
        ELSE IF c[1] = "lm_head" /\ args.split_base
        THEN shard.kind = "lm_head" /\ shard.id = "lm_head"
        ELSE shard.kind = "embed" /\ shard.id = "embed"

C3_ExternalizedOnce ==
    (Returned /\ args.layers_per_chunk >= 1) =>
        \A t \in TensorIds :
            /\ TimesWritten(t) = 1
            /\ tensors[t].data_location = "EXTERNAL"
            /\ tensors[t].raw_data = <<>>
            /\ tensors[t].float_data = <<>>
            /\ \A i \in DOMAIN trace :
                   (trace[i].op = "write" /\ trace[i].tensor = t)
                       => trace[i].file = Location(t)
            /\ Cardinality({s \in ShardIds : shards[s].filename = Location(t)}) = 1
            /\ \A s \in ShardIds :
                   shards[s].filename = Location(t) => C3_ShardOfClass(t, shards[s])

C3_Witness ==
    /\ pc = "done"
    /\ args.layers_per_chunk >= 1
    /\ Len(tensors) >= 3
    /\ Len(shards) >= 2
    /\ \E t \in TensorIds : ClassOf(t)[1] = "layer"
    /\ \E t \in TensorIds : ClassOf(t)[1] = "lm_head"

(***************************************************************************)
(* C4: a non-positive layers_per_chunk is rejected before any file I/O:    *)
(* the run fails, and the output directory, the shard files, model.onnx    *)
(* and manifest.json are never created.                                    *)
(***************************************************************************)
C4_RejectedBeforeIO ==
    argv.layers_per_chunk <= 0 =>
        /\ pc # "done"
        /\ ~dir_created
        /\ DOMAIN files = {}
        /\ model_onnx = <<>>
        /\ manifest_json = <<>>

(***************************************************************************)
(* C5: when creating the directory, writing a shard file or hashing one    *)
(* fails, no manifest is written afterwards; a manifest is written only    *)
(* once write_shards has returned, and each of its shard entries names a   *)
(* file this run opened, wrote in full, closed and then hashed.            *)
(***************************************************************************)
C5_Complete(entry) ==
    \E o, c, h \in DOMAIN trace :
        /\ o < c /\ c < h
        /\ trace[o] = Event("open", entry.filename, 0)
        /\ trace[c] = Event("close", entry.filename, 0)
        /\ trace[h] = Event("hash", entry.filename, 0)
        /\ \A i \in DOMAIN trace :
               (trace[i].file = entry.filename /\ trace[i].op = "write") => (o < i /\ i < c)
        /\ entry.filename \notin open_files
        /\ entry.filename \in DOMAIN files
        /\ Len(files[entry.filename]) = entry.bytes
        /\ entry.bytes = SumLengths(WrittenTo(entry.filename))
        /\ entry.hash = <<"blake3:", blake3_hexdigest(files[entry.filename])>>

C5_NoManifestAfterFailure ==
    /\ (error # <<>> /\ error.at \in {"mkdir", "open", "write", "hash"})
           => manifest_json = <<>>
    /\ manifest_json # <<>> =>
           /\ pc \in {"config", "done", "aborted"}
           /\ model_onnx # <<>>
           /\ Len(manifest_json[1].shards) = Len(shards)
           /\ \A i \in DOMAIN manifest_json[1].shards : C5_Complete(manifest_json[1].shards[i])

C5_Witness ==
    /\ pc = "aborted"
    /\ error.at = "hash"
    /\ Len(shards) >= 1
    /\ frame.path \in DOMAIN files
    /\ manifest_json = <<>>

(***************************************************************************)
(* C6: an empty group produces nothing: every shard of the list has at     *)
(* least one tensor, every file on disk belongs to a shard of the list or  *)
(* to the non-empty group being written, a layer shard's range holds a     *)
(* tensor, and an empty embed+norm, base or lm_head group has no shard and *)
(* no file; a layer range without tensors that the loop has passed has no  *)
(* shard and, in split mode, no file.                                      *)
(***************************************************************************)
C6_Base == IF args.split_base
           THEN result.embed \o result.norm
           ELSE result.embed \o result.norm \o result.lm_head

C6_EmptyGroupSkipped ==
    Classified =>
        /\ \A s \in ShardIds : WrittenTo(shards[s].filename) # <<>>
        /\ \A s \in ShardIds :
               shards[s].kind = "layer" =>
                   GroupTensors(result.layers, shards[s].layer_range[1],
                                shards[s].layer_range[2]) # <<>>
        /\ \A f \in DOMAIN files :
               \/ \E s \in ShardIds : shards[s].filename = f
               \/ frame # <<>> /\ frame.path = f /\ frame.tensors # <<>>
        /\ C6_Base = <<>> =>
               /\ \A s \in ShardIds : shards[s].kind # "embed"
               /\ DataPath("embed") \notin DOMAIN files
        /\ (args.split_base /\ result.lm_head = <<>>) =>
               /\ \A s \in ShardIds : shards[s].kind # "lm_head"
               /\ DataPath("lm_head") \notin DOMAIN files
        /\ \A start \in 0..total_layers :
               LET end == GroupEnd(start, args.layers_per_chunk, total_layers)
               IN  (/\ args.layers_per_chunk >= 1
                    /\ InRange(start, 0, total_layers, args.layers_per_chunk)
                    /\ GroupTensors(result.layers, start, end) = <<>>)
                       => /\ \A s \in ShardIds : shards[s].layer_range # <<start, end>>
                          /\ \A s \in ShardIds :
                                 shards[s].id \notin {SplitShardId(start, end),
                                                      MergedShardId(start, end)}
                          /\ args.split_base =>
                                 SplitLayerPath(start, data_idx) \notin DOMAIN files

C6_Witness ==
    /\ pc = "done"
    /\ args.layers_per_chunk = 1
    /\ total_layers >= 3
    /\ C6_Base = <<>>
    /\ Len(shards) = 2
    /\ shards[1].layer_range = <<0, 0>>

(***************************************************************************)
(* C7: the shard list is in emission order: the embed or merged base shard *)
(* (if any) first, the layer shards in strictly ascending range start, the *)
(* lm_head shard (if any) last; the files were opened for writing in the   *)
(* order of the list, and a written manifest lists the shards in it.       *)
(***************************************************************************)
C7_EmissionOrder ==
    /\ \A i, j \in ShardIds :
           i < j =>
               /\ shards[j].kind # "embed"
               /\ shards[i].kind # "lm_head"
               /\ (shards[i].kind = "layer" /\ shards[j].kind = "layer")
                      => shards[i].layer_range[1] < shards[j].layer_range[1]
    /\ \A i \in ShardIds : shards[i].kind = "lm_head" => args.split_base
    /\ Len(OpenedFiles) >= Len(shards)
    /\ \A i \in ShardIds : OpenedFiles[i] = shards[i].filename
    /\ manifest_json # <<>> =>
           manifest_json[1].shards = [i \in ShardIds |-> ShardToDict(shards[i])]

C7_Witness ==
    /\ pc = "done"
    /\ args.split_base
    /\ Len(shards) = 3
    /\ shards[1].kind = "embed"
    /\ shards[2].kind = "layer"
    /\ shards[3].kind = "lm_head"

(***************************************************************************)
(* C8: in merged mode the i-th shard of the list, counting from 0, is the  *)
(* file model.onnx_data_<i>, also when the base group is empty and when    *)
(* empty layer ranges are skipped.                                         *)
(***************************************************************************)
C8_MergedNumbering ==
    (args # <<>> /\ ~args.split_base) =>
        \A i \in ShardIds : shards[i].filename = DataPath(Str(i - 1))

C8_Witness ==
    /\ pc = "done"
    /\ ~args.split_base
    /\ C6_Base = <<>>
    /\ args.layers_per_chunk = 1
    /\ Len(shards) = 2
    /\ total_layers > 2
    /\ shards[2].filename = DataPath(Str(1))

(***************************************************************************)
(* C9: after classification max_layer is the largest key of the layers map *)
(* when the map has keys, and the sentinel -1 exactly when it has none;    *)
(* without layers the run is not stopped by the layer part (only an I/O    *)
(* error aborts it), no layer shard is emitted and the manifest's          *)
(* total_layers is 0.                                                      *)
(***************************************************************************)
C9_MaxLayer ==
    Classified =>
        /\ DOMAIN result.layers # {} =>
               /\ result.max_layer \in DOMAIN result.layers
               /\ \A k \in DOMAIN result.layers : k <= result.max_layer
        /\ (result.max_layer = NO_LAYER) <=> (DOMAIN result.layers = {})
        /\ result.max_layer = NO_LAYER =>
               /\ total_layers = 0
               /\ error # <<>> => error.kind = "OSError"
               /\ \A s \in ShardIds : shards[s].kind # "layer"
               /\ manifest_json # <<>> => manifest_json[1].total_layers = 0

C9_Witness ==
    /\ pc = "done"
    /\ result.max_layer = NO_LAYER
    /\ args.layers_per_chunk = 0
    /\ Len(shards) >= 1
    /\ manifest_json[1].total_layers = 0

(***************************************************************************)
(* C10: with layers_per_chunk >= 1 the file names of the shards of a run   *)
(* are pairwise distinct and so are the shard ids; no file is opened for   *)
(* writing twice, and no two tensors of non-zero length share a            *)
(* (file name, offset) reference.                                          *)
(***************************************************************************)
C10_Externalized == {t \in TensorIds : tensors[t].data_location = "EXTERNAL"}

C10_NoCollision ==
    (args # <<>> /\ args.layers_per_chunk >= 1) =>
        /\ \A i, j \in ShardIds :
               i # j => /\ shards[i].filename # shards[j].filename
                        /\ shards[i].id # shards[j].id
        /\ \A i, j \in DOMAIN OpenedFiles : i # j => OpenedFiles[i] # OpenedFiles[j]
        /\ \A t, u \in C10_Externalized :
               (t # u /\ Length(t) > 0 /\ Length(u) > 0)
                   => <<Location(t), Offset(t)>> # <<Location(u), Offset(u)>>

C10_Witness ==
    /\ pc = "done"
    /\ args.split_base
    /\ Len(shards) = 3
    /\ shards[1].kind = "embed"
    /\ shards[2].kind = "layer"
    /\ shards[3].kind = "layer"
    /\ \E t, u \in TensorIds :
           /\ Length(t) > 0
           /\ Length(u) > 0
           /\ Location(t) # Location(u)
           /\ Offset(t) = Offset(u)

(***************************************************************************)
(* The classifier alone: the whole reference checkpoint is classified      *)
(* against every graph of up to MaxNodes nodes drawn from a pool of node   *)
(* names and input lists; the command line keeps its defaults.             *)
(***************************************************************************)
\* node names: layers 1, 0 and 3 (the last with a second marker further
\* right), the output head, and a name whose marker lacks the closing slash
NodeNames ==
    { LitNodeLayers \o <<"1", "/", "a">>,
      LitNodeLayers \o <<"0", "/", "b">>,
      LitNodeLayers \o <<"3">> \o LitNodeLayers \o <<"2", "/">>,
      LitLmHead \o <<"c">>,
      LitNodeLayers \o <<"2">> }

NodeInputs ==
    { <<OpaqueA>>,
      <<OpaqueB, NormName>>,
      <<EmbedName, LayerName(0), OpaqueA>> }

NodePool == [name : NodeNames, input : NodeInputs]

Graphs == UNION {[1..n -> NodePool] : n \in 0..MaxNodes}

InitClassify ==
    /\ argv = [layers_per_chunk |-> 1, split_base |-> TRUE]
    /\ model_in \in {[initializer |-> Initializers(RefNames, 0), node |-> g] : g \in Graphs}
    /\ pc = "parse_args"
    /\ args = <<>>
    /\ tensors = model_in.initializer
    /\ result = EmptyClassifyResult
    /\ total_layers = 0
    /\ dir_created = FALSE
    /\ files = <<>>
    /\ open_files = {}
    /\ shards = <<>>
    /\ data_idx = 0
    /\ group_start = 0
    /\ frame = <<>>
    /\ model_onnx = <<>>
    /\ manifest_json = <<>>
    /\ config_json = <<>>
    /\ error = <<>>
    /\ trace = <<>>

NextClassify ==
    \/ ParseArgs
    \/ Classify

SpecClassify == InitClassify /\ [][NextClassify]_vars

\* the maps classify_initializers builds from the graph of the run
NodeLayerMap == build_init_to_layer_map(model_in.node)

LmHeadInputs == build_init_to_lm_head(model_in.node)

NameOf(t) == model_in.initializer[t].name

\* the place of tensor t in the ClassifyResult: <<kind, layer or NO_LAYER>>
Bucket(t) ==
    IF \E k \in DOMAIN result.layers : Occurrences(result.layers[k], t) > 0
    THEN <<"layer", CHOOSE k \in DOMAIN result.layers : Occurrences(result.layers[k], t) > 0>>
    ELSE IF Occurrences(result.embed, t) > 0 THEN <<"embed", NO_LAYER>>
    ELSE IF Occurrences(result.norm, t) > 0 THEN <<"norm", NO_LAYER>>
    ELSE IF Occurrences(result.lm_head, t) > 0 THEN <<"lm_head", NO_LAYER>>
    ELSE <<"none", NO_LAYER>>

(***************************************************************************)
(* C11: classify_tensor applies its rules in fixed precedence, first match *)
(* wins: (1) a name with the direct layer pattern goes to the layer in the *)
(* name, whatever the node-derived map says; (2) a name in the map goes to *)
(* the map's layer, also when it matches the embedding or normalization    *)
(* pattern or is in the output-head set; (3) embedding pattern -> embed;   *)
(* (4) normalization pattern -> norm; (5) output-head set -> lm_head;      *)
(* (6) otherwise embed.  Every name gets a class.                          *)
(***************************************************************************)
C11_Direct(t) == LAYER_RE_match(NameOf(t)) # <<>>

C11_Mapped(t) == NameOf(t) \in DOMAIN NodeLayerMap

C11_Precedence ==
    Classified =>
        \A t \in TensorIds :
            /\ Bucket(t)[1] \in {"layer", "embed", "norm", "lm_head"}
            /\ C11_Direct(t) =>
                   Bucket(t) = <<"layer", ParseInt(LAYER_RE_match(NameOf(t))[1])>>
            /\ (~C11_Direct(t) /\ C11_Mapped(t)) =>
                   Bucket(t) = <<"layer", NodeLayerMap[NameOf(t)]>>
            /\ (~C11_Direct(t) /\ ~C11_Mapped(t) /\ EMBED_RE_match(NameOf(t))) =>
                   Bucket(t)[1] = "embed"
            /\ (~C11_Direct(t) /\ ~C11_Mapped(t) /\ NORM_RE_match(NameOf(t))) =>
                   Bucket(t)[1] = "norm"
            /\ (/\ ~C11_Direct(t) /\ ~C11_Mapped(t)
                /\ ~EMBED_RE_match(NameOf(t)) /\ ~NORM_RE_match(NameOf(t))
                /\ NameOf(t) \in LmHeadInputs) =>
                   Bucket(t)[1] = "lm_head"
            /\ (/\ ~C11_Direct(t) /\ ~C11_Mapped(t)
                /\ ~EMBED_RE_match(NameOf(t)) /\ ~NORM_RE_match(NameOf(t))
                /\ NameOf(t) \notin LmHeadInputs) =>
                   Bucket(t)[1] = "embed"

\* a name with a layer marker that the map puts elsewhere, an opaque name
\* that a layer-3 node and the output head both read, a normalization name
\* the map holds, and an embedding name only the output head reads
C11_Witness ==
    /\ Classified
    /\ \E t \in TensorIds :
           /\ C11_Direct(t) /\ C11_Mapped(t)
           /\ NodeLayerMap[NameOf(t)] # Bucket(t)[2]
    /\ \E t \in TensorIds :
           /\ NameOf(t) = OpaqueA
           /\ NameOf(t) \in LmHeadInputs
           /\ Bucket(t) = <<"layer", 3>>
    /\ \E t \in TensorIds :
           NORM_RE_match(NameOf(t)) /\ C11_Mapped(t) /\ Bucket(t)[1] = "layer"

(***************************************************************************)
(* C12: the node-derived map is first-writer-wins: an input name read by   *)
(* several nodes whose names encode layer indices gets the index of the    *)
(* first such node in graph order; a node whose name encodes no layer adds *)
(* nothing; and while the map is built, node by node and input by input,   *)
(* no entry already present is changed or removed.                         *)
(***************************************************************************)
C12_Nodes == model_in.node

\* the index a node's name encodes
C12_LayerOf(k) == ParseInt(NODE_LAYER_RE_search(C12_Nodes[k].name)[1])

\* the nodes with a layer in their name that read name, by position
C12_Readers(name) ==
    {k \in DOMAIN C12_Nodes :
        /\ NODE_LAYER_RE_search(C12_Nodes[k].name) # <<>>
        /\ \E j \in DOMAIN C12_Nodes[k].input : C12_Nodes[k].input[j] = name}

C12_First(name) == CHOOSE k \in C12_Readers(name) : \A j \in C12_Readers(name) : k <= j

C12_AllInputs ==
    UNION {{C12_Nodes[k].input[j] : j \in DOMAIN C12_Nodes[k].input} : k \in DOMAIN C12_Nodes}

\* the map after the first k nodes
C12_MapAfter(k) == LayerMapFrom(<<>>, SubSeq(C12_Nodes, 1, k), 1)

\* every entry of before is an entry of after
C12_Kept(before, after) ==
    \A n \in DOMAIN before : n \in DOMAIN after /\ after[n] = before[n]

C12_FirstWriterWins ==
    /\ DOMAIN NodeLayerMap = {n \in C12_AllInputs : C12_Readers(n) # {}}
    /\ \A n \in DOMAIN NodeLayerMap : NodeLayerMap[n] = C12_LayerOf(C12_First(n))
    /\ \A k \in DOMAIN C12_Nodes :
           /\ C12_Kept(C12_MapAfter(k - 1), C12_MapAfter(k))
           /\ NODE_LAYER_RE_search(C12_Nodes[k].name) = <<>>
                  => C12_MapAfter(k) = C12_MapAfter(k - 1)
           /\ \A j \in DOMAIN C12_Nodes[k].input :
                  C12_Kept(MapInputs(C12_MapAfter(k - 1),
                                     SubSeq(C12_Nodes[k].input, 1, j - 1), 0, 1),
                           MapInputs(C12_MapAfter(k - 1),
                                     SubSeq(C12_Nodes[k].input, 1, j), 0, 1))

\* a name read by three layer nodes whose first reader has neither the
\* smallest index nor the index of the last reader
C12_Witness ==
    \E n \in DOMAIN NodeLayerMap :
        /\ Classified
        /\ \E t \in DOMAIN model_in.initializer :
               NameOf(t) = n /\ Bucket(t) = <<"layer", NodeLayerMap[n]>>
        /\ Cardinality(C12_Readers(n)) = 3
        /\ NodeLayerMap[n] = C12_LayerOf(C12_First(n))
        /\ \E k \in C12_Readers(n) : C12_LayerOf(k) < NodeLayerMap[n]
        /\ \E k \in C12_Readers(n) :
               /\ \A j \in C12_Readers(n) : j <= k
               /\ C12_LayerOf(k) # NodeLayerMap[n]
               /\ C12_LayerOf(k) = 3

(***************************************************************************)
(* C13: with total_layers = max_layer + 1 and layers_per_chunk >= 1, the   *)
(* ranges the layer loop of write_shards considers are the ranges [s, e]   *)
(* with s a multiple of layers_per_chunk below total_layers and            *)
(* e = min(s + layers_per_chunk, total_layers) - 1; they partition         *)
(* [0, total_layers).  The layer_range of every emitted layer shard is one *)
(* of them, the shard holds exactly the tensors of layers s..e in          *)
(* ascending layer order, distinct layer shards have disjoint ranges, and  *)
(* once the loop is over every range that has tensors has its shard.       *)
(* Layers 0 and 1 with layers_per_chunk = 2 give one layer shard [0,1];    *)
(* with layers_per_chunk = 1 in split mode they give layer_0 [0,0] and     *)
(* layer_1 [1,1].                                                          *)
(***************************************************************************)
C13_Total == result.max_layer + 1

C13_Ranges ==
    {r \in (0..(C13_Total - 1)) \X (0..(C13_Total - 1)) :
        /\ r[1] % args.layers_per_chunk = 0
        /\ \/ r[2] = r[1] + args.layers_per_chunk - 1 /\ r[2] < C13_Total
           \/ r[2] = C13_Total - 1 /\ r[1] + args.layers_per_chunk > C13_Total}

\* the tensors of layers s..e, layer by layer in ascending order
RECURSIVE C13_TensorsOf(_, _)
C13_TensorsOf(s, e) ==
    IF e < s THEN <<>>
    ELSE C13_TensorsOf(s, e - 1)
             \o (IF e \in DOMAIN result.layers THEN result.layers[e] ELSE <<>>)

C13_LayerShards == {i \in ShardIds : shards[i].kind = "layer"}

\* the layer loop of write_shards is running, and where it is
C13_InLoop ==
    \/ pc = "group"
    \/ pc \in {"open", "write", "hash"} /\ frame.kind = "layer"

\* the layer loop of write_shards has ended normally
C13_LoopOver ==
    \/ pc \in {"lm_head", "save", "manifest", "config", "done"}
    \/ pc \in {"open", "write", "hash"} /\ frame.kind = "lm_head"

C13_HasShard(r) == \E i \in C13_LayerShards : shards[i].layer_range = r

C13_Examples ==
    (Returned /\ DOMAIN result.layers = {0, 1}) =>
        /\ args.layers_per_chunk = 2 =>
               /\ Cardinality(C13_LayerShards) = 1
               /\ C13_HasShard(<<0, 1>>)
        /\ (args.layers_per_chunk = 1 /\ args.split_base) =>
               /\ Cardinality(C13_LayerShards) = 2
               /\ \E i, j \in C13_LayerShards :
                      /\ shards[i].id = "layer_0" /\ shards[i].layer_range = <<0, 0>>
                      /\ shards[j].id = "layer_1" /\ shards[j].layer_range = <<1, 1>>

C13_RangePartition ==
    (Classified /\ args.layers_per_chunk >= 1) =>
        /\ \A l \in 0..(C13_Total - 1) :
               Cardinality({r \in C13_Ranges : r[1] <= l /\ l <= r[2]}) = 1
        /\ \A r \in C13_Ranges : r[1] <= r[2]
        /\ C13_InLoop =>
               /\ group_start % args.layers_per_chunk = 0
               /\ frame # <<>> => /\ frame.layer_range \in C13_Ranges
                                  /\ frame.layer_range[1] = group_start
                                  /\ frame.tensors = C13_TensorsOf(group_start,
                                                                   frame.layer_range[2])
               /\ \A r \in C13_Ranges :
                      (r[1] < group_start /\ C13_TensorsOf(r[1], r[2]) # <<>>)
                          => C13_HasShard(r)
        /\ \A i \in C13_LayerShards :
               /\ shards[i].layer_range \in C13_Ranges
               /\ WrittenTo(shards[i].filename)
                      = C13_TensorsOf(shards[i].layer_range[1], shards[i].layer_range[2])
               /\ WrittenTo(shards[i].filename) # <<>>
        /\ \A i, j \in C13_LayerShards :
               i < j => shards[i].layer_range[2] < shards[j].layer_range[1]
        /\ C13_LoopOver =>
               \A r \in C13_Ranges : C13_TensorsOf(r[1], r[2]) # <<>> => C13_HasShard(r)
        /\ C13_Examples

\* a truncated last range, and a two-layer shard whose layer order is not
\* the order of the tensors in the checkpoint
C13_Witness ==
    /\ Returned
    /\ args.layers_per_chunk = 2
    /\ C13_Total = 3
    /\ C13_HasShard(<<2, 2>>)
    /\ \E i \in C13_LayerShards :
           /\ shards[i].layer_range = <<0, 1>>
           /\ Len(WrittenTo(shards[i].filename)) = 2
           /\ WrittenTo(shards[i].filename)[1] > WrittenTo(shards[i].filename)[2]

(***************************************************************************)
(* C14: the events of a shard file come in the order open for writing,     *)
(* the writes of all the tensors of the group, close, hash; the hash in    *)
(* the Shard is the hash of the complete final content of the file, which  *)
(* is bytes long; nothing is written to a file after its hash; and a file  *)
(* is opened only after the hash of the shard before it.                   *)
(***************************************************************************)
C14_Events(op, file) == {i \in DOMAIN trace : trace[i].op = op /\ trace[i].file = file}

C14_Files == {trace[i].file : i \in DOMAIN trace}

\* the tensors write_shards passes to _write_shard for this shard
C14_Group(shard) ==
    IF shard.kind = "layer"
    THEN C13_TensorsOf(shard.layer_range[1], shard.layer_range[2])
    ELSE IF shard.kind = "lm_head" THEN result.lm_head
    ELSE IF args.split_base THEN result.embed \o result.norm
    ELSE result.embed \o result.norm \o result.lm_head

\* the bytes of the tensors ts of the checkpoint, one after the other
RECURSIVE C14_Content(_)
C14_Content(ts) ==
    IF ts = <<>> THEN <<>>
    ELSE tensor_raw_bytes(model_in.initializer[ts[1]]) \o C14_Content(Tail(ts))

\* the events of one file are open, writes, close, hash, in this order
C14_FileOrder(file) ==
    LET opens == C14_Events("open", file)
        writes == C14_Events("write", file)
        closes == C14_Events("close", file)
        hashes == C14_Events("hash", file)
    IN  /\ Cardinality(opens) = 1
        /\ Cardinality(closes) <= 1
        /\ Cardinality(hashes) <= 1
        /\ \A o \in opens : \A w \in writes : o < w
        /\ \A o \in opens : \A c \in closes : o < c
        /\ \A w \in writes : \A c \in closes : w < c
        /\ hashes # {} => closes # {}
        /\ \A c \in closes : \A h \in hashes : c < h
        /\ (file \in open_files) = (closes = {})

C14_ShardEvents(shard) ==
    LET file == shard.filename
    IN  /\ C14_Events("open", file) # {}
        /\ C14_Events("close", file) # {}
        /\ C14_Events("hash", file) # {}
        /\ WrittenTo(file) = C14_Group(shard)
        /\ files[file] = C14_Content(C14_Group(shard))
        /\ shard.hash = [blake3 |-> files[file]]
        /\ Len(files[file]) = shard.bytes
        /\ file \notin open_files

C14_EventOrder ==
    /\ \A file \in C14_Files : C14_FileOrder(file)
    /\ \A s \in ShardIds : C14_ShardEvents(shards[s])
    /\ \A i \in DOMAIN trace :
           /\ (trace[i].op = "open" /\ i > 1) => trace[i - 1].op = "hash"
           /\ (trace[i].op = "hash" /\ i < Len(trace)) =>
                  /\ trace[i + 1].op = "open"
                  /\ trace[i + 1].file # trace[i].file
           /\ trace[i].op = "hash" =>
                  Cardinality({s \in ShardIds : shards[s].filename = trace[i].file}) = 1
    /\ Cardinality({i \in DOMAIN trace : trace[i].op = "hash"}) = Len(shards)

\* two shards written one after the other, one of them with two tensors
\* of non-zero length
C14_Witness ==
    /\ Returned
    /\ Len(shards) >= 2
    /\ \E s \in ShardIds :
           LET ts == WrittenTo(shards[s].filename)
           IN  /\ Len(ts) >= 2
               /\ \A i \in DOMAIN ts : RawLength(ts[i]) > 0
               /\ shards[s].bytes >= 2

====
